---- MODULE Spec2Model ----
(***************************************************************************)
(* Model of monitor.Monitor (src/monitor/monitor.go): the failure          *)
(* deduplication and dispatch engine of complainer.                        *)
(*                                                                         *)
(* Time is counted in seconds.  The wall clock `now` advances in steps of  *)
(* Quantum seconds (timeout/2), so that the age of a timestamp takes the   *)
(* values 0, timeout/2, timeout, 3*timeout/2, ...: the staleness threshold *)
(* (timeout/2) and the eviction threshold (timeout) are both hit exactly   *)
(* and passed.  The zero time.Time is ZeroTime; the monitor starts at      *)
(* Epoch, late enough for ZeroTime to be older than every window, as the   *)
(* year 1 is for a running process.                                        *)
(*                                                                         *)
(* Run is modelled one step per collaborator call (Failures, Logs,         *)
(* Upload, Report) since each blocks and the clock may advance meanwhile,  *)
(* and one step per checkFailure evaluation, nil check and cleanupRecent;  *)
(* the steps of one invocation are chained by run[p].pc, so an invocation  *)
(* that started can only continue with the step the code takes next.       *)
(***************************************************************************)
EXTENDS Integers, Sequences, FiniteSets, TLC

VARIABLES
    now,        \* the wall clock read by time.Since, in seconds
    finishedOf, \* cluster: failed task ID -> its Finished timestamp
    recent,     \* Monitor.recent: failure ID -> recorded timestamp
    recentNil,  \* TRUE while Monitor.recent is the nil map
    invoked,    \* TRUE once Run has been invoked at least once
    accepted,   \* history: ID -> number of times checkFailure returned true
    insertedAt, \* history: ID -> the clock value when it was last stored in m.recent
    wiped,      \* history: the IDs whose entries were dropped when m.recent was
                \* assigned a new map over a map that was not nil
    rejected,   \* history: ID -> the rules by which checkFailure has refused it
    run         \* per caller: the position and locals of its Run invocation

vars == <<now, finishedOf, recent, recentNil, invoked, accepted, insertedAt, wiped, rejected, run>>

----------------------------------------------------------------------------
(* Bounds of the model *)

\* the clock advances at most MaxTicks quanta past Epoch
MaxTicks == 4
\* Failures() returns at most MaxBatch entries
MaxBatch == 2
\* with overlapping invocations: the clock advances at most MaxOverlapTicks
\* quanta and Failures() returns at most MaxOverlapBatch entries
MaxOverlapTicks == 1
MaxOverlapBatch == 1

----------------------------------------------------------------------------
(* Program constants *)

\* timeout = time.Minute, in seconds
timeout == 60

\* the zero value of time.Time (what a map lookup of a missing key yields)
ZeroTime == 0

Quantum == timeout \div 2

Epoch == 2 * timeout

\* the callers of Run; the sequential specification uses the first only
Procs == {1, 2}

\* failure IDs the cluster can report
IDs == {"t1", "t2"}

\* the names of the reporters map given to NewMonitor
Reporters == {"slack", "email"}

\* labels.Instances(n) for the labels of each failure: the ordered instance
\* names configured for reporter n
Instances(id, n) ==
    CASE id = "t1" /\ n = "slack" -> <<"team-a", "team-b">>
      [] id = "t1" /\ n = "email" -> <<>>
      [] id = "t2" /\ n = "slack" -> <<"team-a">>
      [] id = "t2" /\ n = "email" -> <<"ops">>
      [] OTHER -> <<>>

----------------------------------------------------------------------------
(* Pure helpers *)

EmptyMap == [x \in {} |-> ZeroTime]

\* m.recent[id]: a missing key reads as the zero time
Lookup(m, id) == IF id \in DOMAIN m THEN m[id] ELSE ZeroTime

IsZero(t) == t = ZeroTime

\* m.recent[id] = ts
Store(m, id, ts) == [x \in (DOMAIN m) \cup {id} |-> IF x = id THEN ts ELSE m[x]]

\* time.Since(ts) at the current clock value
Since(ts) == now - ts

\* complainer.Failure as returned by Failures()
Failure(id) == [ID |-> id, Finished |-> finishedOf[id]]

Batches == UNION {[1..n -> DOMAIN finishedOf] : n \in 0..MaxBatch}

\* one entry of the history of a Run invocation: a checkFailure evaluation
\* (op "check": ok is the value returned, why the rule that rejected) or a
\* collaborator call (op "Logs", "Upload", "Report": urls are the URLs passed
\* in, ok is FALSE when the call returned an error)
Event(op, id, rep, inst, urls, ok, why) ==
    [op |-> op, id |-> id, rep |-> rep, inst |-> inst, urls |-> urls,
     ok |-> ok, why |-> why]

IdleRun ==
    [pc |-> "idle", first |-> FALSE, failures |-> <<>>, i |-> 1,
     todo |-> {}, cur |-> "", j |-> 1, urls |-> "", ret |-> "",
     polled |-> "", firstInvocation |-> FALSE, log |-> <<>>]

----------------------------------------------------------------------------
(* The decisions of checkFailure and cleanupRecent *)

SeenByKey(id) == id \in DOMAIN recent

\* !m.recent[failure.ID].IsZero()
Seen(id) == ~IsZero(Lookup(recent, id))

StaleBeyondEviction(failure) == Since(failure.Finished) > timeout + timeout \div 2

StaleFromHalf(failure) == Since(failure.Finished) >= timeout \div 2

StaleTwiceTimeout(failure) == Since(failure.Finished) > timeout * 2

StaleAtTimeout(failure) == Since(failure.Finished) > timeout

\* time.Since(failure.Finished) > timeout/2
Stale(failure) == Since(failure.Finished) > timeout \div 2

ExpiredAnyAge(ts) == Since(ts) >= 0

ExpiredInverted(ts) == Since(ts) < timeout

ExpiredAtHalf(ts) == Since(ts) > timeout \div 2

\* time.Since(ts) > timeout
Expired(ts) == Since(ts) > timeout

RecordedAtNow(failure) ==
    IF Seen(failure.ID) THEN recent
    ELSE Store(recent, failure.ID, now)

RecordedSkipped(failure) == recent

\* m.recent after checkFailure(failure, first)
Recorded(failure) ==
    IF Seen(failure.ID) THEN recent
    ELSE Store(recent, failure.ID, failure.Finished)

AcceptsOnFirstRun(failure, first) ==
    IF Seen(failure.ID) THEN FALSE
    ELSE IF Stale(failure) THEN FALSE
    ELSE TRUE

\* the value checkFailure(failure, first) returns
Accepts(failure, first) ==
    IF Seen(failure.ID) THEN FALSE
    ELSE IF Stale(failure) THEN FALSE
    ELSE IF first THEN FALSE
    ELSE TRUE

\* the rule of checkFailure that rejects the failure ("" when it is accepted)
RejectedBy(failure, first) ==
    IF Seen(failure.ID) THEN "seen"
    ELSE IF Stale(failure) THEN "stale"
    ELSE IF first THEN "first"
    ELSE ""

CleanedAll(m) == EmptyMap

CleanedNothing(m) == m

\* m.recent after cleanupRecent()
Cleaned(m) == [x \in {y \in DOMAIN m : ~Expired(m[y])} |-> m[x]]

PendingMultiInstance(id) == {n \in Reporters : Len(Instances(id, n)) > 1}

\* the reporters that have at least one instance for this failure's labels
Pending(id) == {n \in Reporters : Instances(id, n) # <<>>}

\* where Run's loop over failures continues from index i
LoopPc(r, i) == IF i <= Len(r.failures) THEN "check" ELSE "cleanup"

\* the loop moves on to the next failure of the batch
Advance(r) ==
    [r EXCEPT !.i = r.i + 1, !.pc = LoopPc(r, r.i + 1),
              !.todo = {}, !.cur = "", !.j = 1, !.urls = ""]

DispatchFailedReturns(r) ==
    [r EXCEPT !.pc = "done", !.ret = "error",
              !.todo = {}, !.cur = "", !.j = 1, !.urls = ""]

\* processFailure returned an error: Run logs it and goes on with the batch
DispatchFailed(r) == Advance(r)

ReportFailedReturns(r, more) == DispatchFailed(r)

\* r.Report returned an error: processFailure logs it and goes on with the
\* remaining instances and reporters (more: the state in which it does)
ReportFailed(r, more) == more

ReturnValueFromDispatch(r) ==
    IF \E k \in DOMAIN r.log : ~r.log[k].ok /\ r.log[k].op # "check"
    THEN "error" ELSE "nil"

\* the value Run returns after the loop and cleanupRecent
ReturnValue(r) == "nil"

----------------------------------------------------------------------------
(* The environment *)

Init ==
    /\ now = Epoch
    /\ finishedOf = EmptyMap
    /\ recent = EmptyMap
    /\ recentNil = TRUE
    /\ invoked = FALSE
    /\ accepted = [id \in IDs |-> 0]
    /\ insertedAt = EmptyMap
    /\ wiped = {}
    /\ rejected = [id \in IDs |-> {}]
    /\ run = [p \in Procs |-> IdleRun]

\* the positions of Run at which its caller waits: between two invocations
\* and inside a collaborator call
Waiting == {"idle", "done", "logs", "upload", "report"}

\* the clock advances by a quantum: between invocations (which covers the
\* Failures() call that opens the next one) or while a collaborator call
\* blocks; the code between two such calls takes no quantum of time
Tick ==
    /\ now < Epoch + MaxTicks * Quantum
    /\ \A p \in Procs : run[p].pc \in Waiting
    /\ now' = now + Quantum
    /\ UNCHANGED <<finishedOf, recent, recentNil, invoked, accepted, insertedAt, wiped, rejected, run>>

\* a task fails in the cluster: it finished now, or the cluster knows no
\* finish time for it; its ID and Finished timestamp stay the same in every
\* later poll
TaskFails ==
    \E id \in IDs \ DOMAIN finishedOf :
      \E ts \in {ZeroTime, now} :
        /\ finishedOf' = Store(finishedOf, id, ts)
        /\ UNCHANGED <<now, recent, recentNil, invoked, accepted, insertedAt, wiped, rejected, run>>

----------------------------------------------------------------------------
(* Monitor.Run, step by step *)

\* Run is invoked and m.mesos.Failures() returns a failure list
FailuresOk(p) ==
    /\ run[p].pc \in {"idle", "done"}
    /\ \E b \in Batches :
         run' = [run EXCEPT ![p] =
                   [IdleRun EXCEPT !.pc = "init",
                                   !.polled = "ok",
                                   !.failures = [k \in DOMAIN b |-> Failure(b[k])],
                                   !.firstInvocation = ~invoked]]
    /\ invoked' = TRUE
    /\ UNCHANGED <<now, finishedOf, recent, recentNil, accepted, insertedAt, wiped, rejected>>

FailuresErrorInitializes(p) ==
    /\ run[p].pc \in {"idle", "done"}
    /\ run' = [run EXCEPT ![p] =
                 [IdleRun EXCEPT !.pc = "done", !.ret = "error", !.polled = "error",
                                 !.firstInvocation = ~invoked]]
    /\ invoked' = TRUE
    /\ recentNil' = FALSE
    /\ UNCHANGED <<now, finishedOf, recent, accepted, insertedAt, wiped, rejected>>

\* Run is invoked and m.mesos.Failures() returns an error: Run returns it
FailuresError(p) ==
    /\ run[p].pc \in {"idle", "done"}
    /\ run' = [run EXCEPT ![p] =
                 [IdleRun EXCEPT !.pc = "done", !.ret = "error", !.polled = "error",
                                 !.firstInvocation = ~invoked]]
    /\ invoked' = TRUE
    /\ UNCHANGED <<now, finishedOf, recent, recentNil, accepted, insertedAt, wiped, rejected>>

InitRecentWhenEmpty(p) ==
    /\ run[p].pc = "init"
    /\ recent' = IF recentNil THEN EmptyMap ELSE recent
    /\ recentNil' = FALSE
    /\ run' = [run EXCEPT ![p].first = (recentNil \/ recent = EmptyMap),
                          ![p].pc = LoopPc(run[p], 1)]
    /\ UNCHANGED <<now, finishedOf, invoked, accepted, insertedAt, wiped, rejected>>

\* first := false; if m.recent == nil { m.recent = map...; first = true }
InitRecent(p) ==
    /\ run[p].pc = "init"
    /\ recent' = IF recentNil THEN EmptyMap ELSE recent
    /\ recentNil' = FALSE
    /\ run' = [run EXCEPT ![p].first = recentNil,
                          ![p].pc = LoopPc(run[p], 1)]
    /\ UNCHANGED <<now, finishedOf, invoked, accepted, insertedAt, wiped, rejected>>

\* if m.checkFailure(failure, first) { ... } for the failure at index i
CheckFailure(p) ==
    LET r == run[p]
        f == r.failures[r.i]
    IN  /\ r.pc = "check"
        /\ recent' = Recorded(f)
        /\ insertedAt' = IF Lookup(recent, f.ID) = Lookup(recent', f.ID) THEN insertedAt
                         ELSE Store(insertedAt, f.ID, now)
        /\ LET logged == [r EXCEPT !.log = Append(@,
                   Event("check", f.ID, "", "", "", Accepts(f, r.first),
                         RejectedBy(f, r.first)))]
           IN  IF Accepts(f, r.first)
                 THEN /\ accepted' = [accepted EXCEPT ![f.ID] = @ + 1]
                      /\ run' = [run EXCEPT ![p] = [logged EXCEPT !.pc = "logs"]]
                 ELSE /\ accepted' = accepted
                      /\ run' = [run EXCEPT ![p] = Advance(logged)]
        /\ rejected' = IF Accepts(f, r.first) THEN rejected
                       ELSE [rejected EXCEPT ![f.ID] = @ \cup {RejectedBy(f, r.first)}]
        /\ UNCHANGED <<now, finishedOf, recentNil, invoked, wiped>>

\* processFailure: m.mesos.Logs(failure)
Logs(p) ==
    LET r == run[p]
        f == r.failures[r.i]
    IN  /\ r.pc = "logs"
        /\ \E ok \in BOOLEAN :
             LET logged == [r EXCEPT !.log = Append(@, Event("Logs", f.ID, "", "", "", ok, ""))]
             IN  run' = [run EXCEPT ![p] =
                           IF ok THEN [logged EXCEPT !.pc = "upload", !.urls = "mesos"]
                           ELSE DispatchFailed(logged)]
        /\ UNCHANGED <<now, finishedOf, recent, recentNil, invoked, accepted, insertedAt, wiped, rejected>>

UploadKeepsLogsURLs(p) ==
    LET r == run[p]
        f == r.failures[r.i]
    IN  /\ r.pc = "upload"
        /\ \E ok \in BOOLEAN :
             LET logged == [r EXCEPT !.log = Append(@, Event("Upload", f.ID, "", "", r.urls, ok, ""))]
             IN  run' = [run EXCEPT ![p] =
                           IF ~ok THEN DispatchFailed(logged)
                           ELSE IF Pending(f.ID) # {}
                             THEN [logged EXCEPT !.pc = "report",
                                                 !.todo = Pending(f.ID), !.cur = "", !.j = 1]
                           ELSE Advance(logged)]
        /\ UNCHANGED <<now, finishedOf, recent, recentNil, invoked, accepted, insertedAt, wiped, rejected>>

\* processFailure: m.uploader.Upload(failure, stdoutURL, stderrURL)
Upload(p) ==
    LET r == run[p]
        f == r.failures[r.i]
    IN  /\ r.pc = "upload"
        /\ \E ok \in BOOLEAN :
             LET logged == [r EXCEPT !.log = Append(@, Event("Upload", f.ID, "", "", r.urls, ok, ""))]
             IN  run' = [run EXCEPT ![p] =
                           IF ~ok THEN DispatchFailed(logged)
                           ELSE IF Pending(f.ID) # {}
                             THEN [logged EXCEPT !.pc = "report", !.urls = "uploaded",
                                                 !.todo = Pending(f.ID), !.cur = "", !.j = 1]
                           ELSE Advance(logged)]
        /\ UNCHANGED <<now, finishedOf, recent, recentNil, invoked, accepted, insertedAt, wiped, rejected>>

\* processFailure: the next r.Report(failure, config, stdoutURL, stderrURL) of
\* the loops over m.reporters (in any order) and labels.Instances(n) (in order)
Report(p) ==
    LET r == run[p]
        f == r.failures[r.i]
    IN  /\ r.pc = "report"
        /\ \E n \in (IF r.cur # "" THEN {r.cur} ELSE r.todo), ok \in BOOLEAN :
             LET j == IF r.cur # "" THEN r.j ELSE 1
                 todo == r.todo \ {n}
                 more == j < Len(Instances(f.ID, n))
                 logged == [r EXCEPT !.log = Append(@,
                               Event("Report", f.ID, n, Instances(f.ID, n)[j], r.urls, ok, ""))]
                 goesOn == IF more THEN [logged EXCEPT !.cur = n, !.j = j + 1, !.todo = todo]
                           ELSE IF todo # {} THEN [logged EXCEPT !.cur = "", !.j = 1, !.todo = todo]
                           ELSE Advance(logged)
             IN  run' = [run EXCEPT ![p] =
                           IF ok THEN goesOn ELSE ReportFailed(logged, goesOn)]
        /\ UNCHANGED <<now, finishedOf, recent, recentNil, invoked, accepted, insertedAt, wiped, rejected>>

\* m.cleanupRecent(); return nil
Cleanup(p) ==
    /\ run[p].pc = "cleanup"
    /\ recent' = Cleaned(recent)
    /\ run' = [run EXCEPT ![p].pc = "done", ![p].ret = ReturnValue(run[p])]
    /\ UNCHANGED <<now, finishedOf, recentNil, invoked, accepted, insertedAt, wiped, rejected>>

----------------------------------------------------------------------------
(* Non-overlapping Run invocations: a single caller *)

Sequential == {1}

Next ==
    \/ Tick
    \/ TaskFails
    \/ \E p \in Sequential : FailuresOk(p)
    \/ \E p \in Sequential : FailuresError(p)
    \/ \E p \in Sequential : InitRecent(p)
    \/ \E p \in Sequential : CheckFailure(p)
    \/ \E p \in Sequential : Logs(p)
    \/ \E p \in Sequential : Upload(p)
    \/ \E p \in Sequential : Report(p)
    \/ \E p \in Sequential : Cleanup(p)

Spec == Init /\ [][Next]_vars

----------------------------------------------------------------------------
(* Overlapping Run invocations: two callers and no lock.  The accesses to
   m.recent of one invocation interleave with those of the other, so the nil
   check and the assignment of Run, and the lookup and the store of
   checkFailure, are steps of their own.  The environment is kept small: one
   failing task, short polls, a short clock. *)

OverlapIDs == {"t1"}

OverlapBatches == UNION {[1..n -> DOMAIN finishedOf] : n \in 0..MaxOverlapBatch}

OverlapTick ==
    /\ now < Epoch + MaxOverlapTicks * Quantum
    /\ \A p \in Procs : run[p].pc \in Waiting
    /\ now' = now + Quantum
    /\ UNCHANGED <<finishedOf, recent, recentNil, invoked, accepted, insertedAt, wiped, rejected, run>>

OverlapTaskFails ==
    \E id \in OverlapIDs \ DOMAIN finishedOf :
      \E ts \in {ZeroTime, now} :
        /\ finishedOf' = Store(finishedOf, id, ts)
        /\ UNCHANGED <<now, recent, recentNil, invoked, accepted, insertedAt, wiped, rejected, run>>

\* Run is invoked and m.mesos.Failures() returns a failure list
OverlapFailuresOk(p) ==
    /\ run[p].pc \in {"idle", "done"}
    /\ \E b \in OverlapBatches :
         run' = [run EXCEPT ![p] =
                   [IdleRun EXCEPT !.pc = "init",
                                   !.polled = "ok",
                                   !.failures = [k \in DOMAIN b |-> Failure(b[k])],
                                   !.firstInvocation = ~invoked]]
    /\ invoked' = TRUE
    /\ UNCHANGED <<now, finishedOf, recent, recentNil, accepted, insertedAt, wiped, rejected>>

\* if m.recent == nil
NilCheck(p) ==
    /\ run[p].pc = "init"
    /\ run' = [run EXCEPT ![p] =
                 IF recentNil THEN [run[p] EXCEPT !.pc = "assign"]
                 ELSE [run[p] EXCEPT !.first = FALSE, !.pc = LoopPc(run[p], 1)]]
    /\ UNCHANGED <<now, finishedOf, recent, recentNil, invoked, accepted, insertedAt, wiped, rejected>>

\* m.recent = map[string]time.Time{}; first = true
AssignRecent(p) ==
    /\ run[p].pc = "assign"
    /\ recent' = EmptyMap
    /\ recentNil' = FALSE
    /\ wiped' = wiped \cup DOMAIN recent
    /\ run' = [run EXCEPT ![p].first = TRUE, ![p].pc = LoopPc(run[p], 1)]
    /\ UNCHANGED <<now, finishedOf, invoked, accepted, insertedAt, rejected>>

\* checkFailure: if !m.recent[failure.ID].IsZero() { return false }
ReadRecent(p) ==
    LET r == run[p]
        f == r.failures[r.i]
    IN  /\ r.pc = "check"
        /\ run' = [run EXCEPT ![p] =
                     IF Seen(f.ID)
                     THEN Advance([r EXCEPT !.log = Append(@,
                                     Event("check", f.ID, "", "", "", FALSE, "seen"))])
                     ELSE [r EXCEPT !.pc = "record"]]
        /\ rejected' = IF Seen(f.ID) THEN [rejected EXCEPT ![f.ID] = @ \cup {"seen"}]
                       ELSE rejected
        /\ UNCHANGED <<now, finishedOf, recent, recentNil, invoked, accepted, insertedAt, wiped>>

\* checkFailure, after the lookup found nothing: m.recent[failure.ID] =
\* failure.Finished, then the staleness and first-run rules
RecordFailure(p) ==
    LET r == run[p]
        f == r.failures[r.i]
        why == IF Stale(f) THEN "stale" ELSE IF r.first THEN "first" ELSE ""
        logged == [r EXCEPT !.log = Append(@,
                     Event("check", f.ID, "", "", "", why = "", why))]
    IN  /\ r.pc = "record"
        /\ recent' = Store(recent, f.ID, f.Finished)
        /\ insertedAt' = Store(insertedAt, f.ID, now)
        /\ IF why = ""
             THEN /\ accepted' = [accepted EXCEPT ![f.ID] = @ + 1]
                  /\ run' = [run EXCEPT ![p] = [logged EXCEPT !.pc = "logs"]]
             ELSE /\ accepted' = accepted
                  /\ run' = [run EXCEPT ![p] = Advance(logged)]
        /\ rejected' = IF why = "" THEN rejected
                       ELSE [rejected EXCEPT ![f.ID] = @ \cup {why}]
        /\ UNCHANGED <<now, finishedOf, recentNil, invoked, wiped>>

\* the positions at which an invocation is about to write the map, and those
\* at which it is about to read or write it
MapWriters == {"record", "cleanup"}
MapUsers == {"check", "record", "cleanup"}

\* the Go runtime finds one invocation using the map while another writes it
\* ("fatal error: concurrent map writes"): the process dies
MapFault ==
    /\ \E p, q \in Procs :
         p # q /\ run[p].pc \in MapWriters /\ run[q].pc \in MapUsers
    /\ run' = [p \in Procs |-> [run[p] EXCEPT !.pc = "crashed"]]
    /\ UNCHANGED <<now, finishedOf, recent, recentNil, invoked, accepted, insertedAt, wiped, rejected>>

NextOverlap ==
    \/ OverlapTick
    \/ OverlapTaskFails
    \/ MapFault
    \/ \E p \in Procs : OverlapFailuresOk(p)
    \/ \E p \in Procs : FailuresError(p)
    \/ \E p \in Procs : NilCheck(p)
    \/ \E p \in Procs : AssignRecent(p)
    \/ \E p \in Procs : ReadRecent(p)
    \/ \E p \in Procs : RecordFailure(p)
    \/ \E p \in Procs : Logs(p)
    \/ \E p \in Procs : Upload(p)
    \/ \E p \in Procs : Report(p)
    \/ \E p \in Procs : Cleanup(p)

SpecOverlap == Init /\ [][NextOverlap]_vars

----------------------------------------------------------------------------
(* Reading the history of a Run invocation *)

\* the positions of r.log holding a failed collaborator call of kind op
FailedCalls(r, op) == {k \in DOMAIN r.log : r.log[k].op = op /\ ~r.log[k].ok}

\* the positions of r.log holding a checkFailure evaluation
Checks(r) == {k \in DOMAIN r.log : r.log[k].op = "check"}

\* Report was called for (id, reporter n, instance inst) during the invocation
ReportedTo(r, id, n, inst) ==
    \E k \in DOMAIN r.log :
      /\ r.log[k].op = "Report"
      /\ r.log[k].id = id
      /\ r.log[k].rep = n
      /\ r.log[k].inst = inst

\* every (reporter, instance) pair resolved for id received its Report call
AllPairsReported(r, id) ==
    \A n \in Reporters :
      \A j \in 1..Len(Instances(id, n)) : ReportedTo(r, id, n, Instances(id, n)[j])

\* every failure of the polled batch went through checkFailure
AllEvaluated(r) == Cardinality(Checks(r)) = Len(r.failures)

\* the step is the return of p's Run invocation
Returns(p) == run[p].pc # "done" /\ run'[p].pc = "done"

\* no entry of m.recent has a recorded timestamp older than now - timeout
NoneOlderThanTimeout == \A id \in DOMAIN recent : ~(now - recent[id] > timeout)

----------------------------------------------------------------------------
(* C1: under non-overlapping runs, a stable Finished per ID and a clock that
   never goes back, checkFailure returns true for a given failure ID at most
   once over the lifetime of the Monitor, whatever the runs, polls and time
   advances, also after the ID's cache entry was evicted and also when the
   earlier delivery failed. *)
AcceptedAtMostOnce == \A id \in IDs : accepted[id] <= 1

\* an ID accepted by an earlier run is evaluated again after its entry was
\* evicted (it is not "seen") and is refused as stale
RefusedAfterEviction ==
    \E p \in Procs : \E k \in Checks(run[p]) :
      /\ accepted[run[p].log[k].id] = 1
      /\ run[p].log[k].why = "stale"

----------------------------------------------------------------------------
(* C2: during the first Run invocation of a Monitor nothing is dispatched:
   no failure is accepted and no Logs, Upload or Report call is made,
   whatever the polled failures and their Finished timestamps. *)
FirstRunSilent ==
    \A p \in Procs :
      run[p].firstInvocation =>
        \A k \in DOMAIN run[p].log : run[p].log[k].op = "check" /\ ~run[p].log[k].ok

\* the first invocation polled a failure that is neither cached nor stale and
\* returned without dispatching it
FirstRunRefusedFresh ==
    \E p \in Procs :
      /\ run[p].firstInvocation
      /\ run[p].pc = "done"
      /\ \E k \in Checks(run[p]) : run[p].log[k].why = "first"

----------------------------------------------------------------------------
(* C3: a failure whose age at its evaluation exceeds timeout/2 is never
   accepted for dispatch by that evaluation, on the first run and on later
   runs alike, cached or not. *)
StaleNeverDispatched ==
    [][\A p \in Procs :
         (/\ run[p].pc = "check"
          /\ now - run[p].failures[run[p].i].Finished > timeout \div 2)
         => (accepted' = accepted /\ run'[p].pc # "logs")]_vars

\* a run that is not the first one evaluated an uncached failure older than
\* timeout/2 and refused it
LaterRunRefusedStale ==
    \E p \in Procs :
      /\ ~run[p].first
      /\ \E k \in Checks(run[p]) : run[p].log[k].why = "stale" /\ ~run[p].log[k].ok

----------------------------------------------------------------------------
(* C4: when a Report call of an accepted failure returns an error, every
   other (reporter, instance) pair resolved for that failure still gets its
   Report call, the remaining failures of the batch are still evaluated and
   the run still evicts expired cache entries before it returns. *)
ReportErrorIsolated ==
    [][\A p \in Procs :
         (Returns(p) /\ FailedCalls(run'[p], "Report") # {})
         => /\ \A k \in FailedCalls(run'[p], "Report") :
                 AllPairsReported(run'[p], run'[p].log[k].id)
            /\ AllEvaluated(run'[p])
            /\ run[p].pc = "cleanup"
            /\ NoneOlderThanTimeout']_vars

\* a Report call failed, a later Report call of the same failure was made,
\* then the next failure of the batch was evaluated, and Run returned nil
ReportFailedOthersServed ==
    \E p \in Procs :
      LET log == run[p].log
      IN  /\ run[p].pc = "done"
          /\ run[p].ret = "nil"
          /\ \E k \in FailedCalls(run[p], "Report") :
               /\ \E m \in DOMAIN log :
                    m > k /\ log[m].op = "Report" /\ log[m].id = log[k].id
               /\ \E m \in Checks(run[p]) : m > k

----------------------------------------------------------------------------
(* C5: when Failures() returns an error, Run returns that error and leaves
   the Monitor as it was: a nil cache stays nil, an initialized cache keeps
   every entry (nothing is evicted), and no Logs, Upload or Report call is
   made. *)
PollErrorLeavesState ==
    [][\A p \in Procs :
         (/\ run[p].pc \in {"idle", "done"}
          /\ run'[p].pc = "done"
          /\ run'[p].polled = "error")
         => /\ run'[p].ret = "error"
            /\ recent' = recent
            /\ recentNil' = recentNil
            /\ accepted' = accepted
            /\ run'[p].log = <<>>]_vars

\* Run returned the poll error while the cache held an entry that the
\* eviction step would have removed
PollErrorKeptExpiredEntry ==
    \E p \in Procs :
      /\ run[p].pc = "done"
      /\ run[p].ret = "error"
      /\ ~recentNil
      /\ \E id \in DOMAIN recent : now - recent[id] > timeout

----------------------------------------------------------------------------
(* C6, as stated: a cache entry inserted at time T is absent from the cache
   at any cache check performed at time >= T + timeout and present at any
   cache check performed strictly before T + timeout (read for the entries
   of failures that carry a Finished timestamp, the check being the lookup
   checkFailure is about to make for that ID). *)
EvictedExactlyAtTimeout ==
    \A p \in Procs :
      run[p].pc = "check" =>
        LET id == run[p].failures[run[p].i].ID
        IN  (id \in DOMAIN insertedAt /\ finishedOf[id] # ZeroTime) =>
              IF now >= insertedAt[id] + timeout
              THEN id \notin DOMAIN recent
              ELSE id \in DOMAIN recent

(* C6, amended: with T the recorded timestamp of the entry (the failure's
   Finished, not the time of insertion), no step removes the entry while
   now <= T + timeout, so it is present at every cache check up to then; only
   the eviction step that ends a Run removes entries, and it removes every
   entry with now > T + timeout, so an entry outlives T + timeout until the
   next eviction step. *)
EvictionByRecordedTimestamp ==
    [][/\ \A id \in DOMAIN recent :
            id \notin DOMAIN recent' =>
              /\ now - recent[id] > timeout
              /\ \E p \in Procs : run[p].pc = "cleanup" /\ run'[p].pc = "done"
       /\ \A p \in Procs :
            (run[p].pc = "cleanup" /\ run'[p].pc = "done") =>
              \A id \in DOMAIN recent :
                now - recent[id] > timeout => id \notin DOMAIN recent']_vars

\* a run found an ID in the cache at its check, at a time past the entry's
\* timestamp + timeout, and its eviction step then removed the entry
SeenThenEvicted ==
    \E p \in Procs :
      /\ run[p].pc = "done"
      /\ \E k \in Checks(run[p]) :
           /\ run[p].log[k].why = "seen"
           /\ run[p].log[k].id \notin DOMAIN recent
           /\ now - finishedOf[run[p].log[k].id] > timeout

----------------------------------------------------------------------------
(* C7: when one poll returns the same failure ID more than once, the ID is
   accepted for dispatch at most once within that run. *)
AcceptedOncePerRun ==
    \A p \in Procs : \A id \in IDs :
      Cardinality({k \in Checks(run[p]) :
                     run[p].log[k].id = id /\ run[p].log[k].ok}) <= 1

\* a batch held the same ID twice: the first entry was accepted, the second
\* was refused as already cached
DuplicateRefusedInRun ==
    \E p \in Procs :
      LET r == run[p]
      IN  /\ r.pc = "done"
          /\ Len(r.failures) >= 2
          /\ r.failures[1].ID = r.failures[2].ID
          /\ \E k, m \in Checks(r) :
               /\ k < m
               /\ r.log[k].ok
               /\ r.log[m].why = "seen"
               /\ r.log[m].id = r.log[k].id

----------------------------------------------------------------------------
(* C8: Run returns a non-nil error if and only if Failures() failed; when the
   poll succeeded Run returns nil whatever Logs, Upload and Report errors
   occurred during the run. *)
ErrorIffPollFailed ==
    \A p \in Procs :
      run[p].pc = "done" =>
        /\ run[p].ret \in {"nil", "error"}
        /\ run[p].ret = "error" <=> run[p].polled = "error"

\* Run returned nil after a Logs or Upload error and a Report error
ReturnedNilDespiteErrors ==
    \E p \in Procs :
      /\ run[p].pc = "done"
      /\ run[p].ret = "nil"
      /\ FailedCalls(run[p], "Logs") \cup FailedCalls(run[p], "Upload") # {}
      /\ FailedCalls(run[p], "Report") # {}

----------------------------------------------------------------------------
(* C9: a Logs error for an accepted failure stops the dispatch of that
   failure only: no Upload and no Report call is made for it, the batch is
   still evaluated to its end and every other accepted failure gets its own
   Logs/Upload/Report sequence, and the failing ID stays recorded in the
   cache (until its timestamp leaves the eviction window) and is not accepted
   again. *)
DispatchComplete(r, k) ==
    /\ k + 1 \in DOMAIN r.log
    /\ r.log[k + 1].op = "Logs"
    /\ r.log[k + 1].id = r.log[k].id
    /\ r.log[k + 1].ok =>
         /\ k + 2 \in DOMAIN r.log
         /\ r.log[k + 2].op = "Upload"
         /\ r.log[k + 2].id = r.log[k].id
         /\ r.log[k + 2].ok => AllPairsReported(r, r.log[k].id)

LogsErrorIsolated ==
    \A p \in Procs :
      LET r == run[p]
      IN  \A k \in FailedCalls(r, "Logs") :
            LET id == r.log[k].id
            IN  /\ \A m \in DOMAIN r.log :
                     r.log[m].id = id => r.log[m].op \notin {"Upload", "Report"}
                /\ \/ id \in DOMAIN recent /\ recent[id] = finishedOf[id]
                   \/ r.pc = "done" /\ now - finishedOf[id] > timeout
                /\ accepted[id] = 1
                /\ r.pc = "done" =>
                     /\ AllEvaluated(r)
                     /\ \A m \in Checks(r) : r.log[m].ok => DispatchComplete(r, m)

\* Logs failed for the first failure of a batch; the second one was then
\* accepted, uploaded and reported to all its pairs; the first is still cached
LogsFailedOtherDispatched ==
    \E p \in Procs :
      LET r == run[p]
      IN  /\ r.pc = "done"
          /\ \E k \in FailedCalls(r, "Logs") :
               /\ r.log[k].id \in DOMAIN recent
               /\ \E m \in Checks(r) :
                    /\ m > k
                    /\ r.log[m].ok
                    /\ r.log[m].id # r.log[k].id
                    /\ r.log[m + 1].ok
                    /\ r.log[m + 2].ok
                    /\ AllPairsReported(r, r.log[m].id)

----------------------------------------------------------------------------
(* C10: every Run whose poll succeeded performs the eviction step before it
   returns, dispatch errors or not: at its return the cache holds no entry
   whose recorded timestamp is older than now - timeout. *)
EvictionUnconditional ==
    [][\A p \in Procs :
         (Returns(p) /\ run'[p].polled = "ok") => NoneOlderThanTimeout']_vars

\* a run in which a dispatch failed has returned, and an ID it found in the
\* cache is gone from it
EvictedDespiteFailedDispatch ==
    \E p \in Procs :
      LET r == run[p]
      IN  /\ r.pc = "done"
          /\ r.polled = "ok"
          /\ FailedCalls(r, "Logs") \cup FailedCalls(r, "Upload")
               \cup FailedCalls(r, "Report") # {}
          /\ \E k \in Checks(r) :
               r.log[k].why = "seen" /\ r.log[k].id \notin DOMAIN recent

----------------------------------------------------------------------------
(* C11: for an accepted failure whose Logs and Upload succeeded, Report is
   called exactly once for every pair (reporter n, instance i) with n a
   configured reporter and i in Instances(n) for the failure's labels, and
   for no other pair: a reporter with no instance gets no call. *)
ReportCalls(r, id, n, inst) ==
    {k \in DOMAIN r.log : /\ r.log[k].op = "Report"
                          /\ r.log[k].id = id
                          /\ r.log[k].rep = n
                          /\ r.log[k].inst = inst}

\* the instance names labels.Instances(n) holds for the failure
InstanceNames(id, n) == {Instances(id, n)[j] : j \in 1..Len(Instances(id, n))}

\* Upload succeeded for id during the invocation
Uploaded(r, id) ==
    \E k \in DOMAIN r.log : r.log[k].op = "Upload" /\ r.log[k].id = id /\ r.log[k].ok

FanOutExact ==
    \A p \in Procs :
      LET r == run[p]
      IN  /\ \A k \in DOMAIN r.log :
               r.log[k].op = "Report" =>
                 /\ Uploaded(r, r.log[k].id)
                 /\ r.log[k].rep \in Reporters
                 /\ r.log[k].inst \in InstanceNames(r.log[k].id, r.log[k].rep)
                 /\ Cardinality(ReportCalls(r, r.log[k].id, r.log[k].rep, r.log[k].inst)) = 1
          /\ r.pc = "done" =>
               \A id \in IDs :
                 Uploaded(r, id) =>
                   \A n \in Reporters : \A inst \in InstanceNames(id, n) :
                     Cardinality(ReportCalls(r, id, n, inst)) = 1

\* a run dispatched t1, whose labels give slack two instances and email none:
\* it made exactly the two slack calls, and one of them failed
FannedOutToSlackOnly ==
    \E p \in Procs :
      LET r == run[p]
      IN  /\ r.pc = "done"
          /\ Uploaded(r, "t1")
          /\ Cardinality({k \in DOMAIN r.log : r.log[k].op = "Report" /\ r.log[k].id = "t1"}) = 2
          /\ ReportCalls(r, "t1", "slack", "team-a") # {}
          /\ ReportCalls(r, "t1", "slack", "team-b") # {}
          /\ FailedCalls(r, "Report") # {}

----------------------------------------------------------------------------
(* C12: the cache is not synchronized.  When two Run invocations overlap
   with no lock around them, an interleaving exists in which both find the
   same failure ID unseen and the ID is accepted twice (DoubleAcceptByRace
   is reached): at-most-once needs non-overlapping invocations.  What holds
   of overlapping invocations is that a second acceptance of an ID comes
   from a race only: at the store of the accepting evaluation the ID is in
   the cache again, stored by the other invocation since that evaluation
   looked it up, or its entry was dropped when an invocation that had seen
   m.recent nil assigned a new map over the one in use. *)
SecondAcceptOnlyByRace ==
    [][\A p \in Procs :
         (/\ run[p].pc = "record"
          /\ accepted[run[p].failures[run[p].i].ID] >= 1
          /\ accepted'[run[p].failures[run[p].i].ID]
               > accepted[run[p].failures[run[p].i].ID])
         => \/ Lookup(recent, run[p].failures[run[p].i].ID) # ZeroTime
            \/ run[p].failures[run[p].i].ID \in wiped]_vars

\* both callers accepted the same ID in overlapping invocations, each having
\* found it unseen, and no map was dropped
DoubleAcceptByRace ==
    \E id \in IDs :
      /\ accepted[id] = 2
      /\ wiped = {}
      /\ \A p \in Procs :
           \E k \in Checks(run[p]) : run[p].log[k].id = id /\ run[p].log[k].ok

----------------------------------------------------------------------------
(* C13: under non-overlapping runs and a stable Finished per ID, the value
   m.recent holds for an ID is the Finished timestamp of the failure whose
   evaluation inserted it; an entry that is present keeps its value through
   every step, whatever later sightings of the ID do; and an entry leaves the
   map only in the cleanupRecent step, when its timestamp is older than
   timeout. *)
CacheEntryKeepsFirstValue ==
    [][\A id \in IDs :
         /\ (id \in DOMAIN recent /\ id \in DOMAIN recent')
              => recent'[id] = recent[id]
         /\ (id \notin DOMAIN recent /\ id \in DOMAIN recent')
              => \E p \in Procs :
                   /\ run[p].pc = "check"
                   /\ run[p].failures[run[p].i].ID = id
                   /\ recent'[id] = run[p].failures[run[p].i].Finished
         /\ (id \in DOMAIN recent /\ id \notin DOMAIN recent')
              => \E p \in Procs :
                   /\ run[p].pc = "cleanup"
                   /\ Expired(recent[id])]_vars

\* an ID recorded by an earlier run is sighted again by a later run: it is
\* refused as seen and its entry still holds the Finished recorded first
ResightedEntryKept ==
    \E id \in DOMAIN recent :
      /\ recent[id] # ZeroTime
      /\ recent[id] = finishedOf[id]
      /\ insertedAt[id] < now
      /\ \E k \in Checks(run[1]) :
           run[1].log[k].id = id /\ run[1].log[k].why = "seen"

----------------------------------------------------------------------------
(* C14, as stated: over any sequence of runs a failure ID passes the "unseen"
   check of checkFailure and is recorded at most once: an ID that passes it
   was never recorded before. *)
EvaluatedAtMostOnce ==
    [][\A p \in Procs :
         (/\ run[p].pc = "check"
          /\ run'[p] # run[p]
          /\ ~Seen(run[p].failures[run[p].i].ID))
         => run[p].failures[run[p].i].ID \notin DOMAIN insertedAt \cup DOMAIN recent]_vars

(* C14, amended: under non-overlapping runs, an ID whose entry is present
   with a non-zero timestamp never passes the "unseen" check; every ID that
   passes it is recorded, on the accept and on the reject path alike; and an
   ID recorded before passes it again only when its Finished is the zero
   time, or after its entry was evicted, more than timeout after its
   Finished, and then it is recorded again and refused. *)
EvaluatedOncePerCachedPeriod ==
    [][\A p \in Procs :
         LET f == run[p].failures[run[p].i]
         IN  (run[p].pc = "check" /\ run'[p] # run[p])
             => /\ (f.ID \in DOMAIN recent /\ recent[f.ID] # ZeroTime)
                     => (Seen(f.ID) /\ recent' = recent)
                /\ ~Seen(f.ID)
                     => (f.ID \in DOMAIN recent' /\ recent'[f.ID] = f.Finished)
                /\ (~Seen(f.ID) /\ f.ID \in DOMAIN insertedAt \cup DOMAIN recent)
                     => /\ \/ f.Finished = ZeroTime
                           \/ f.ID \notin DOMAIN recent /\ Since(f.Finished) > timeout
                        /\ accepted' = accepted]_vars

\* an ID accepted while fresh is recorded a second time, more than timeout
\* after its Finished: its first entry was evicted in between
RecordedAgainAfterEviction ==
    \E id \in DOMAIN recent :
      /\ accepted[id] = 1
      /\ recent[id] # ZeroTime
      /\ insertedAt[id] > recent[id] + timeout

----------------------------------------------------------------------------
(* C15: checkFailure accepts a failure if and only if its ID is not cached,
   now - Finished <= timeout/2 and the run is not the first run.  The rules
   apply in that order (a cached ID is refused as seen, an uncached one older
   than timeout/2 as stale also on the first run, and only then the first-run
   rule); an uncached ID is stored with its Finished whatever the decision,
   and a cached ID changes nothing.  On a later run an uncached failure that
   finished 10 s ago is accepted and one that finished 50 s ago is refused as
   stale. *)
AcceptanceDecision ==
    /\ [](\A id \in IDs :
            ~Seen(id) =>
              /\ Accepts([ID |-> id, Finished |-> now - 10], FALSE)
              /\ ~Accepts([ID |-> id, Finished |-> now - 50], FALSE)
              /\ RejectedBy([ID |-> id, Finished |-> now - 50], FALSE) = "stale")
    /\ [][\A p \in Procs :
            (run[p].pc = "check" /\ run'[p] # run[p]) =>
              LET f == run[p].failures[run[p].i]
                  cached == Lookup(recent, f.ID) # ZeroTime
                  old == now - f.Finished > timeout \div 2
                  e == run'[p].log[Len(run'[p].log)]
              IN  /\ Len(run'[p].log) = Len(run[p].log) + 1
                  /\ e.op = "check" /\ e.id = f.ID
                  /\ e.ok <=> (~cached /\ ~old /\ ~run[p].first)
                  /\ e.ok <=> run'[p].pc = "logs"
                  /\ accepted' = [accepted EXCEPT ![f.ID] = IF e.ok THEN @ + 1 ELSE @]
                  /\ cached => (e.why = "seen" /\ recent' = recent /\ insertedAt' = insertedAt)
                  /\ ~cached => recent' = Store(recent, f.ID, f.Finished)
                  /\ (~cached /\ old) => e.why = "stale"
                  /\ (~cached /\ ~old /\ run[p].first) => e.why = "first"]_vars

\* a later run accepted a failure whose age was exactly timeout/2 and, in the
\* same batch, refused another one as stale
AcceptedAtHalfTimeout ==
    \E id \in IDs : \E k, l \in Checks(run[1]) :
      /\ ~run[1].first
      /\ run[1].log[k].id = id /\ run[1].log[k].ok
      /\ insertedAt[id] - finishedOf[id] = timeout \div 2
      /\ run[1].log[l].id # id /\ run[1].log[l].why = "stale"

----------------------------------------------------------------------------
(* C16: under non-overlapping runs the first-run rule applies in one run per
   Monitor only, the run that turns m.recent from nil into a map: a run gets
   first = true only in the step that finds m.recent nil and assigns it, the
   map never becomes nil again, a run whose poll failed leaves it nil and
   evaluates nothing, and a refusal by the first-run rule is only ever made
   by a run with first = true.  A later run that finds the map empty has
   first = false. *)
FirstRunOnlyOnce ==
    /\ [](\A p \in Procs :
            /\ run[p].first => (run[p].polled = "ok" /\ ~recentNil)
            /\ run[p].polled = "error" => (run[p].log = <<>> /\ ~run[p].first)
            /\ \A k \in Checks(run[p]) : run[p].log[k].why = "first" => run[p].first)
    /\ [][/\ ~recentNil => ~recentNil'
          /\ \A p \in Procs :
               /\ (run'[p].first /\ ~run[p].first) => (recentNil /\ ~recentNil')
               /\ (run'[p].polled = "error" /\ run'[p] # run[p])
                    => (recentNil' = recentNil /\ recent' = recent)
               /\ (run[p].pc = "init" /\ run'[p] # run[p] /\ ~recentNil)
                    => (~run'[p].first /\ recent' = recent)]_vars

\* a run that is not the first finds the map empty, every earlier entry
\* having been evicted, and accepts the first failure of its batch
AcceptedAfterCacheEmptied ==
    \E id \in IDs : \E other \in DOMAIN insertedAt :
      /\ other # id
      /\ DOMAIN recent = {id}
      /\ ~run[1].first
      /\ run[1].pc = "logs"
      /\ Len(run[1].log) = 1
      /\ run[1].log[1].id = id /\ run[1].log[1].ok

----------------------------------------------------------------------------
(* C17: in the calls one Run makes for a failure, Logs comes first, right
   after checkFailure accepted it; Upload is called only right after a Logs
   call that succeeded, with the URLs Logs returned; every Report call comes
   after an Upload call that succeeded, with the URLs Upload returned; a
   failure whose Upload (or Logs) call failed gets no Report call; and the
   batch goes on: when the run returns every polled failure was evaluated. *)
DispatchOrdered ==
    \A p \in Procs :
      LET log == run[p].log
      IN  /\ \A k \in DOMAIN log :
                /\ log[k].op = "Logs" =>
                     /\ k > 1
                     /\ log[k - 1].op = "check" /\ log[k - 1].ok
                     /\ log[k - 1].id = log[k].id
                /\ log[k].op = "Upload" =>
                     /\ k > 1
                     /\ log[k - 1].op = "Logs" /\ log[k - 1].ok
                     /\ log[k - 1].id = log[k].id
                     /\ log[k].urls = "mesos"
                /\ log[k].op = "Report" =>
                     /\ k > 1
                     /\ log[k - 1].op \in {"Upload", "Report"}
                     /\ log[k - 1].op = "Upload" => log[k - 1].ok
                     /\ log[k - 1].id = log[k].id
                     /\ log[k].urls = "uploaded"
                /\ (log[k].op \in {"Logs", "Upload"} /\ ~log[k].ok) =>
                     \A l \in DOMAIN log :
                       (l > k /\ log[l].id = log[k].id) => log[l].op = "check"
          /\ (run[p].pc = "done" /\ run[p].polled = "ok") => AllEvaluated(run[p])

\* the Upload call of one failure failed and a later failure of the same
\* batch was dispatched up to its Report calls
UploadFailedOtherDispatched ==
    /\ run[1].pc = "done"
    /\ \E k \in FailedCalls(run[1], "Upload") : \E l \in DOMAIN run[1].log :
         /\ l > k
         /\ run[1].log[l].op = "Report"
         /\ run[1].log[l].id # run[1].log[k].id

----------------------------------------------------------------------------
(* C18: at the return of a Run whose poll succeeded, every failure of the
   polled batch whose Finished is not older than now - timeout has its ID in
   m.recent, with that Finished as value, whatever the run did with it:
   accepted and delivered, refused as seen, stale or first run, or dispatch
   cut short by a failed Logs, Upload or Report call. *)
PolledWithinWindowCached ==
    [][\A p \in Procs :
         (Returns(p) /\ run'[p].polled = "ok") =>
           \A k \in DOMAIN run[p].failures :
             LET f == run[p].failures[k]
             IN  now - f.Finished <= timeout
                   => (f.ID \in DOMAIN recent' /\ recent'[f.ID] = f.Finished)]_vars

\* the first run polled two failures that finished just now: it returned
\* with both IDs cached and made no collaborator call for them
FirstRunCachedBoth ==
    /\ run[1].pc = "done" /\ run[1].polled = "ok" /\ run[1].first
    /\ Len(run[1].failures) = 2
    /\ run[1].failures[1].ID # run[1].failures[2].ID
    /\ \A k \in 1..2 :
         /\ run[1].failures[k].Finished = now
         /\ run[1].failures[k].ID \in DOMAIN recent
    /\ Checks(run[1]) = DOMAIN run[1].log

----------------------------------------------------------------------------
(* C19: under non-overlapping runs, a stable Finished per ID and a clock
   that never goes back, a failure ID that checkFailure has refused once, by
   whichever rule (seen, stale or first run), is never accepted afterwards:
   every step that accepts an ID finds that no evaluation has refused it
   before.  The backlog refused on the first run stays unreported also after
   its cache entries were evicted. *)
RejectionPermanent ==
    [][\A id \in IDs :
         accepted'[id] > accepted[id] => rejected[id] = {}]_vars

\* an ID refused by the first-run rule was evicted, evaluated again by a
\* later run, refused as stale and evicted again, and was never accepted
BacklogNeverReported ==
    \E id \in IDs :
      /\ {"first", "stale"} \subseteq rejected[id]
      /\ accepted[id] = 0
      /\ id \notin DOMAIN recent
      /\ run[1].pc = "done"

----------------------------------------------------------------------------
(* C20: membership in m.recent is decided by the stored timestamp being
   non-zero, not by the key being there.  Under non-overlapping runs, a
   failure whose Finished is the zero time is never refused as seen: every
   evaluation of it, a duplicate in the same batch included, stores it again
   and refuses it as stale, so it is never accepted; and its entry is gone
   when the run returns, removed by cleanupRecent. *)
ZeroFinishedNeverSeen ==
    /\ [](\A id \in DOMAIN finishedOf :
            finishedOf[id] = ZeroTime
              => (accepted[id] = 0 /\ rejected[id] \subseteq {"stale"}))
    /\ [][\A p \in Procs :
            LET f == run[p].failures[run[p].i]
                e == run'[p].log[Len(run'[p].log)]
            IN  /\ (run[p].pc = "check" /\ run'[p] # run[p] /\ f.Finished = ZeroTime)
                     => /\ e.op = "check" /\ e.id = f.ID
                        /\ ~e.ok /\ e.why = "stale"
                        /\ f.ID \in DOMAIN recent' /\ recent'[f.ID] = ZeroTime
                /\ (Returns(p) /\ run'[p].polled = "ok")
                     => \A id \in DOMAIN recent' : recent'[id] # ZeroTime]_vars

\* a batch held the same zero-Finished failure twice: both evaluations
\* refused it as stale, none as seen, and the run returned without its entry
ZeroFinishedDuplicateRefusedStale ==
    /\ run[1].pc = "done"
    /\ Len(run[1].failures) = 2
    /\ run[1].failures[1].ID = run[1].failures[2].ID
    /\ run[1].failures[1].Finished = ZeroTime
    /\ Cardinality(Checks(run[1])) = 2
    /\ \A k \in Checks(run[1]) : run[1].log[k].why = "stale"
    /\ run[1].failures[1].ID \notin DOMAIN recent

====
